---- MODULE Spec2Model ----
(***************************************************************************)
(* Built-in validators of inquire (src/src/validator.rs).                  *)
(*                                                                         *)
(* A text is a sequence of characters (Unicode scalar values), each a      *)
(* one-character string.  str::len() is the number of UTF-8 bytes of the   *)
(* text, which differs from the number of characters on multi-byte text.   *)
(* A validator instance is the closure a macro arm expands to: the kind of *)
(* test with the captured $length / $type and $message.  A call of the     *)
(* closure is split into the evaluation of the match scrutinee, the choice *)
(* of the match arm and the return, so that calls of several threads       *)
(* interleave.                                                             *)
(***************************************************************************)
EXTENDS Integers, Sequences, FiniteSets, TLC

VARIABLES validators, arm, pc, inst, arg, scrut, result, history

vars == <<validators, arm, pc, inst, arg, scrut, result, history>>

----------------------------------------------------------------------------
(* Bounds of the model *)

\* longest text enumerated over Alphabet
MaxLen == 3
\* largest threshold enumerated for the length validators
MaxN == 3

----------------------------------------------------------------------------
(* Texts *)

DigitChars == <<"0", "1", "2", "3", "4", "5", "6", "7", "8", "9">>

Digits == {DigitChars[k] : k \in 1..10}

IsDigit(c) == c \in Digits

DigitVal(c) == (CHOOSE k \in 1..10 : DigitChars[k] = c) - 1

\* number of bytes of the UTF-8 encoding of a character
Utf8Len(c) ==
    CASE c = "é" -> 2
      [] c = "€" -> 3
      [] OTHER -> 1

RECURSIVE ByteLen(_)
\* str::len(): the length of the text in bytes
ByteLen(a) == IF a = <<>> THEN 0 ELSE Utf8Len(Head(a)) + ByteLen(Tail(a))

\* mutant of IsEmpty: the text is trimmed before the test
IsEmptyTrimmed(a) == \A k \in 1..Len(a) : a[k] = " "

\* str::is_empty(): self.len() == 0
IsEmpty(a) == ByteLen(a) = 0

\* number of Unicode scalar values of the text (chars().count())
CharCount(a) == Len(a)

RECURSIVE TextsOfLen(_, _)
TextsOfLen(chars, n) ==
    IF n = 0 THEN {<<>>}
    ELSE {<<c>> \o s : c \in chars, s \in TextsOfLen(chars, n - 1)}

Texts(chars, n) == UNION {TextsOfLen(chars, k) : k \in 0..n}

RECURSIVE DigitPrefixLen(_)
\* number of leading ASCII digits of the text
DigitPrefixLen(s) ==
    IF s # <<>> /\ IsDigit(Head(s)) THEN 1 + DigitPrefixLen(Tail(s)) ELSE 0

Drop(s, n) == SubSeq(s, n + 1, Len(s))

Take(s, n) == SubSeq(s, 1, n)

IsSign(c) == c \in {"+", "-"}

----------------------------------------------------------------------------
(* str::parse::<T>() for the integer targets u8 and i8 *)

IntTypes == {"u8", "i8"}

IsSigned(ty) == ty = "i8"

IntMin(ty) == IF ty = "i8" THEN -128 ELSE 0

IntMax(ty) == IF ty = "i8" THEN 127 ELSE 255

ParseOk(v) == <<"Ok", v>>

ParseErr == <<"Err">>

RECURSIVE CheckedDigits(_, _, _, _)
\* result = result * 10 +/- digit with checked_mul / checked_add / checked_sub;
\* ParseErr on overflow of the target type
CheckedDigits(ty, neg, digits, acc) ==
    IF digits = <<>> THEN ParseOk(acc)
    ELSE LET d == DigitVal(Head(digits))
             next == IF neg THEN acc * 10 - d ELSE acc * 10 + d
         IN  IF next < IntMin(ty) \/ next > IntMax(ty) THEN ParseErr
             ELSE CheckedDigits(ty, neg, Tail(digits), next)

\* <u8 / i8 as FromStr>::from_str
ParseInt(ty, a) ==
    IF a = <<>> THEN ParseErr
    ELSE LET neg == IsSigned(ty) /\ Head(a) = "-"
             digits == IF Head(a) = "+" \/ neg THEN Tail(a) ELSE a
         IN  IF digits = <<>> \/ DigitPrefixLen(digits) # Len(digits) THEN ParseErr
             ELSE CheckedDigits(ty, neg, digits, 0)

----------------------------------------------------------------------------
(* str::parse::<f64>()                                                     *)
(*   Float  ::= Sign? ( 'inf' | 'infinity' | 'nan' | Number )              *)
(*   Number ::= ( Digit+ | Digit+ '.' Digit* | Digit* '.' Digit+ ) Exp?    *)
(*   Exp    ::= 'e' Sign? Digit+                                           *)

LowerChar(c) ==
    CASE c = "I" -> "i" [] c = "N" -> "n" [] c = "F" -> "f" [] c = "A" -> "a"
      [] c = "T" -> "t" [] c = "Y" -> "y" [] c = "E" -> "e"
      [] OTHER -> c

Lower(s) == [k \in 1..Len(s) |-> LowerChar(s[k])]

InfWords == {<<"i", "n", "f">>, <<"i", "n", "f", "i", "n", "i", "t", "y">>}

NanWord == <<"n", "a", "n">>

\* the decimal exponent is accumulated saturating
ExpCap == 100000

RECURSIVE DigitsValue(_, _)
DigitsValue(digits, acc) ==
    IF digits = <<>> THEN acc
    ELSE LET next == acc * 10 + DigitVal(Head(digits))
         IN  DigitsValue(Tail(digits), IF next > ExpCap THEN ExpCap ELSE next)

RECURSIVE StripZeros(_)
StripZeros(digits) ==
    IF digits # <<>> /\ Head(digits) = "0" THEN StripZeros(Tail(digits)) ELSE digits

\* the parts of a text after its sign: integer digits, fraction digits,
\* exponent (sign, digits) and what is left over
NumberParts(s) ==
    LET ni == DigitPrefixLen(s)
        r1 == Drop(s, ni)
        dot == r1 # <<>> /\ Head(r1) = "."
        nf == IF dot THEN DigitPrefixLen(Tail(r1)) ELSE 0
        r2 == IF dot THEN Drop(r1, 1 + nf) ELSE r1
        hasExp == r2 # <<>> /\ LowerChar(Head(r2)) = "e"
        r3 == IF hasExp THEN Tail(r2) ELSE r2
        expSigned == hasExp /\ r3 # <<>> /\ IsSign(Head(r3))
        r4 == IF expSigned THEN Tail(r3) ELSE r3
        ne == IF hasExp THEN DigitPrefixLen(r4) ELSE 0
    IN  [int |-> Take(s, ni),
         frac |-> IF dot THEN Take(Tail(r1), nf) ELSE <<>>,
         hasExp |-> hasExp,
         expNeg |-> expSigned /\ Head(r3) = "-",
         exp |-> Take(r4, ne),
         rest |-> IF hasExp THEN Drop(r4, ne) ELSE r2]

\* mutant of IsNumber: a number at the start of the text is enough
IsNumberPrefix(s) ==
    LET p == NumberParts(s)
    IN  /\ Len(p.int) + Len(p.frac) >= 1
        /\ p.hasExp => p.exp # <<>>

\* the text after the sign is a Number of the grammar, wholly
IsNumber(s) ==
    LET p == NumberParts(s)
    IN  /\ Len(p.int) + Len(p.frac) >= 1
        /\ p.hasExp => p.exp # <<>>
        /\ p.rest = <<>>

\* the largest finite f64 is 1.7976931348623157e308; a decimal above the
\* midpoint 1.797693134862315807937...e308 to 2^1024 rounds to infinity
\* (the digits below decide every mantissa of up to 21 digits)
F64MaxExp10 == 308

F64InfDigits ==
    <<1, 7, 9, 7, 6, 9, 3, 1, 3, 4, 8, 6, 2, 3, 1, 5, 8, 0, 7, 9, 3, 8>>

RECURSIVE DigitsAtLeast(_, _)
\* mantissa digits (padded with zeros) >= the digits of the bound
DigitsAtLeast(m, bound) ==
    IF bound = <<>> THEN TRUE
    ELSE LET d == IF m = <<>> THEN 0 ELSE DigitVal(Head(m))
         IN  IF d > Head(bound) THEN TRUE
             ELSE IF d < Head(bound) THEN FALSE
             ELSE DigitsAtLeast(IF m = <<>> THEN <<>> ELSE Tail(m), Tail(bound))

\* the magnitude of a Number is beyond the finite range of f64
NumberOverflowsF64(s) ==
    LET p == NumberParts(s)
        m == StripZeros(p.int \o p.frac)
        lead == Len(p.int \o p.frac) - Len(m)
        e == IF p.expNeg THEN 0 - DigitsValue(p.exp, 0) ELSE DigitsValue(p.exp, 0)
        \* the value is m[1].m[2]m[3]... * 10^k
        k == Len(p.int) - lead - 1 + e
    IN  /\ m # <<>>
        /\ \/ k > F64MaxExp10
           \/ k = F64MaxExp10 /\ DigitsAtLeast(m, F64InfDigits)

\* <f64 as FromStr>::from_str
ParseFloat(a) ==
    LET s == IF a # <<>> /\ IsSign(Head(a)) THEN Tail(a) ELSE a
    IN  IF Lower(s) \in InfWords THEN ParseOk("inf")
        ELSE IF Lower(s) = NanWord THEN ParseOk("nan")
        ELSE IF ~IsNumber(s) THEN ParseErr
        ELSE IF NumberOverflowsF64(s) THEN ParseOk("inf")
        ELSE ParseOk("finite")

\* a.parse::<$type>()
Parse(ty, a) == IF ty \in IntTypes THEN ParseInt(ty, a) ELSE ParseFloat(a)

----------------------------------------------------------------------------
(* Verdicts: Result<(), String> *)

Ok == <<"Ok">>

Err(message) == <<"Err", message>>

----------------------------------------------------------------------------
(* Messages *)

RECURSIVE Decimal(_)
\* Display of an unsigned integer, as format!("{}", n) writes it
Decimal(n) ==
    IF n < 10 THEN DigitChars[n + 1]
    ELSE Decimal(n \div 10) \o DigitChars[(n % 10) + 1]

RequiredDefaultMessage == "A response is required."

MaxLengthDefaultMessage(length) ==
    "The length of the response should be at most " \o Decimal(length)

\* mutant of MinLengthDefaultMessage: the wording of max_length! copied
MinLengthDefaultMessageAtMost(length) ==
    "The length of the response should be at most " \o Decimal(length)

MinLengthDefaultMessage(length) ==
    "The length of the response should be at least " \o Decimal(length)

LengthDefaultMessage(length) ==
    "The length of the response should be " \o Decimal(length)

\* std::any::type_name::<$type>()
TypeName(ty) == ty

ParsePrimitiveDefaultMessage(ty) ==
    "Failure when parsing response to type " \o TypeName(ty)

----------------------------------------------------------------------------
(* The closures the macro arms expand to *)

NoType == "-"

\* required!($message)
RequiredClosure(message) ==
    [kind |-> "required", length |-> 0, ty |-> NoType, message |-> message]

\* required!()
RequiredDefaultClosure == RequiredClosure(RequiredDefaultMessage)

\* mutant of MaxLengthClosure: the custom message is dropped
MaxLengthClosureDefaultMessage(length, message) ==
    [kind |-> "max_length", length |-> length, ty |-> NoType,
     message |-> MaxLengthDefaultMessage(length)]

\* max_length!($length, $message)
MaxLengthClosure(length, message) ==
    [kind |-> "max_length", length |-> length, ty |-> NoType, message |-> message]

\* max_length!($length)
MaxLengthDefaultClosure(length) ==
    MaxLengthClosure(length, MaxLengthDefaultMessage(length))

\* min_length!($length, $message)
MinLengthClosure(length, message) ==
    [kind |-> "min_length", length |-> length, ty |-> NoType, message |-> message]

\* min_length!($length)
MinLengthDefaultClosure(length) ==
    MinLengthClosure(length, MinLengthDefaultMessage(length))

\* length!($length, $message)
LengthClosure(length, message) ==
    [kind |-> "length", length |-> length, ty |-> NoType, message |-> message]

\* length!($length)
LengthDefaultClosure(length) ==
    LengthClosure(length, LengthDefaultMessage(length))

\* parse_primitive!($type, $message)
ParsePrimitiveClosure(ty, message) ==
    [kind |-> "parse_primitive", length |-> 0, ty |-> ty, message |-> message]

\* parse_primitive!($type)
ParsePrimitiveDefaultClosure(ty) ==
    ParsePrimitiveClosure(ty, ParsePrimitiveDefaultMessage(ty))

LengthKinds == {"max_length", "min_length", "length"}

\* mutant of ScrutineeOf: length! alone counts characters
ScrutineeOfMixed(v, a) ==
    CASE v.kind = "required" -> IsEmpty(a)
      [] v.kind = "length" -> CharCount(a)
      [] v.kind \in LengthKinds -> ByteLen(a)
      [] v.kind = "parse_primitive" -> Parse(v.ty, a)

\* the scrutinee of the closure's match: a.is_empty(), a.len() or a.parse()
ScrutineeOf(v, a) ==
    CASE v.kind = "required" -> IsEmpty(a)
      [] v.kind \in LengthKinds -> ByteLen(a)
      [] v.kind = "parse_primitive" -> Parse(v.ty, a)

\* the arm of required!'s match
RequiredArm(v, empty) == IF empty THEN Err(v.message) ELSE Ok

\* the arms of max_length!'s match
MaxLengthArm(v, _len) == IF _len <= v.length THEN Ok ELSE Err(v.message)

\* the arms of min_length!'s match
MinLengthArm(v, _len) == IF _len >= v.length THEN Ok ELSE Err(v.message)

\* the arms of length!'s match
LengthArm(v, _len) == IF _len = v.length THEN Ok ELSE Err(v.message)

\* the arms of parse_primitive!'s match
ParsePrimitiveArm(v, parsed) == IF parsed[1] = "Ok" THEN Ok ELSE Err(v.message)

ArmOf(v, s) ==
    CASE v.kind = "required" -> RequiredArm(v, s)
      [] v.kind = "max_length" -> MaxLengthArm(v, s)
      [] v.kind = "min_length" -> MinLengthArm(v, s)
      [] v.kind = "length" -> LengthArm(v, s)
      [] v.kind = "parse_primitive" -> ParsePrimitiveArm(v, s)

\* one call of the closure, run alone
Call(v, a) == ArmOf(v, ScrutineeOf(v, a))

----------------------------------------------------------------------------
(* Parameters and inputs of the model *)

Instances == {"v1", "v2"}

Threads == {"t1", "t2"}

Alphabet == {"9", ".", "e", "-", "é"}

\* the texts of the doctests, and texts for the corners of the tests
Examples ==
    { <<"G", "e", "n", "e", "r", "i", "c", " ", "i", "n", "p", "u", "t">>,
      <<"G", "o", "o", "d">>,
      <<"T", "e", "r", "r", "i", "b", "l", "e">>,
      <<"Y", "e", "s">>,
      <<"N", "o">>,
      <<"3", "2", ".", "4", "4">>,
      <<"3", "2", "f">>,
      <<"1", "1", "e", "1", "5">>,
      <<"1", "1", "^", "2">>,
      <<" ", " ">>,
      <<"€">>,
      <<"é", "é", "é", "é", "é", "é">>,
      <<"i", "n", "f">>,
      <<"+", "5">>,
      <<"2", "5", "5">>,
      <<"2", "5", "6">>,
      <<"-", "1", "2", "8">>,
      <<"-", "1", "2", "9">>,
      <<"1", "e", "3", "0", "8">>,
      <<"2", "e", "3", "0", "8">>,
      <<"9", "e", "9", "9", "9">> }

Inputs == Texts(Alphabet, MaxLen) \cup Examples

Lengths == 0..MaxN \cup {5, 12}

Types == {"f64", "u8", "i8"}

CustomMessages == {"Invalid answer"}

\* the texts whose completed calls are recorded in history
Probes == {<<>>, <<"é">>}

\* the sequential runs: one instance, called by one thread
SeqInstances == {"v1"}

SeqThreads == {"t1"}

\* the concurrent runs
ConcLengths == {1}

ConcTypes == {"f64"}

ConcInputs == {<<>>, <<"é">>, <<"9">>}

----------------------------------------------------------------------------
(* State *)

NoValidator == [kind |-> "none", length |-> 0, ty |-> NoType, message |-> ""]

NoInstance == "none"

NoValue == <<>>

Constructed(i) == validators[i].kind # "none"

Init ==
    /\ validators = [i \in Instances |-> NoValidator]
    /\ arm = [i \in Instances |-> "none"]
    /\ pc = [t \in Threads |-> "idle"]
    /\ inst = [t \in Threads |-> NoInstance]
    /\ arg = [t \in Threads |-> NoValue]
    /\ scrut = [t \in Threads |-> NoValue]
    /\ result = [t \in Threads |-> NoValue]
    /\ history = {}

----------------------------------------------------------------------------
(* Construction: the expansion of a macro arm yields the closure *)

Construct(i, v, how) ==
    /\ ~Constructed(i)
    /\ validators' = [validators EXCEPT ![i] = v]
    /\ arm' = [arm EXCEPT ![i] = how]
    /\ UNCHANGED <<pc, inst, arg, scrut, result, history>>

NewRequiredDefault(i) == Construct(i, RequiredDefaultClosure, "default")

NewRequired(i, message) == Construct(i, RequiredClosure(message), "custom")

NewMaxLengthDefault(i, length) ==
    Construct(i, MaxLengthDefaultClosure(length), "default")

NewMaxLength(i, length, message) ==
    Construct(i, MaxLengthClosure(length, message), "custom")

NewMinLengthDefault(i, length) ==
    Construct(i, MinLengthDefaultClosure(length), "default")

NewMinLength(i, length, message) ==
    Construct(i, MinLengthClosure(length, message), "custom")

NewLengthDefault(i, length) ==
    Construct(i, LengthDefaultClosure(length), "default")

NewLength(i, length, message) ==
    Construct(i, LengthClosure(length, message), "custom")

NewParsePrimitiveDefault(i, ty) ==
    Construct(i, ParsePrimitiveDefaultClosure(ty), "default")

NewParsePrimitive(i, ty, message) ==
    Construct(i, ParsePrimitiveClosure(ty, message), "custom")

----------------------------------------------------------------------------
(* A call validator(a) by thread t *)

\* the caller applies the closure to a text
Invoke(t, i, a) ==
    /\ pc[t] = "idle"
    /\ Constructed(i)
    /\ pc' = [pc EXCEPT ![t] = "scrutinee"]
    /\ inst' = [inst EXCEPT ![t] = i]
    /\ arg' = [arg EXCEPT ![t] = a]
    /\ UNCHANGED <<validators, arm, scrut, result, history>>

\* mutant of Scrutinee: the scrutinee is kept in a cell captured by the
\* closure, shared by the calls of the instance
ScrutineeShared(t) ==
    /\ pc[t] = "scrutinee"
    /\ scrut' = [u \in Threads |->
                   IF inst[u] = inst[t]
                   THEN ScrutineeOf(validators[inst[t]], arg[t])
                   ELSE scrut[u]]
    /\ pc' = [pc EXCEPT ![t] = "match"]
    /\ UNCHANGED <<validators, arm, inst, arg, result, history>>

\* match a.is_empty() / a.len() / a.parse::<$type>()
Scrutinee(t) ==
    /\ pc[t] = "scrutinee"
    /\ scrut' = [scrut EXCEPT ![t] = ScrutineeOf(validators[inst[t]], arg[t])]
    /\ pc' = [pc EXCEPT ![t] = "match"]
    /\ UNCHANGED <<validators, arm, inst, arg, result, history>>

\* mutant of MatchArm: once the instance has rejected, it keeps rejecting
MatchArmSticky(t) ==
    /\ pc[t] = "match"
    /\ result' = [result EXCEPT ![t] =
                    IF \E h \in history : h.inst = inst[t] /\ h.verdict # Ok
                    THEN Err(validators[inst[t]].message)
                    ELSE ArmOf(validators[inst[t]], scrut[t])]
    /\ pc' = [pc EXCEPT ![t] = "done"]
    /\ UNCHANGED <<validators, arm, inst, arg, scrut, history>>

\* the arm taken: Ok(()) or Err(String::from($message))
MatchArm(t) ==
    /\ pc[t] = "match"
    /\ result' = [result EXCEPT ![t] = ArmOf(validators[inst[t]], scrut[t])]
    /\ pc' = [pc EXCEPT ![t] = "done"]
    /\ UNCHANGED <<validators, arm, inst, arg, scrut, history>>

\* the verdict is handed to the caller; the calls on the probe texts are
\* recorded
Return(t) ==
    /\ pc[t] = "done"
    /\ history' =
           IF arg[t] \in Probes
           THEN history \cup {[inst |-> inst[t], arg |-> arg[t], verdict |-> result[t]]}
           ELSE history
    /\ pc' = [pc EXCEPT ![t] = "idle"]
    /\ inst' = [inst EXCEPT ![t] = NoInstance]
    /\ arg' = [arg EXCEPT ![t] = NoValue]
    /\ scrut' = [scrut EXCEPT ![t] = NoValue]
    /\ result' = [result EXCEPT ![t] = NoValue]
    /\ UNCHANGED <<validators, arm>>

----------------------------------------------------------------------------
(* Sequential runs: one validator instance called again and again *)

Next ==
    \/ \E i \in SeqInstances : NewRequiredDefault(i)
    \/ \E i \in SeqInstances, m \in CustomMessages : NewRequired(i, m)
    \/ \E i \in SeqInstances, n \in Lengths : NewMaxLengthDefault(i, n)
    \/ \E i \in SeqInstances, n \in Lengths, m \in CustomMessages :
            NewMaxLength(i, n, m)
    \/ \E i \in SeqInstances, n \in Lengths : NewMinLengthDefault(i, n)
    \/ \E i \in SeqInstances, n \in Lengths, m \in CustomMessages :
            NewMinLength(i, n, m)
    \/ \E i \in SeqInstances, n \in Lengths : NewLengthDefault(i, n)
    \/ \E i \in SeqInstances, n \in Lengths, m \in CustomMessages :
            NewLength(i, n, m)
    \/ \E i \in SeqInstances, ty \in Types : NewParsePrimitiveDefault(i, ty)
    \/ \E i \in SeqInstances, ty \in Types, m \in CustomMessages :
            NewParsePrimitive(i, ty, m)
    \/ \E t \in SeqThreads, i \in SeqInstances, a \in Inputs : Invoke(t, i, a)
    \/ \E t \in SeqThreads : Scrutinee(t)
    \/ \E t \in SeqThreads : MatchArm(t)
    \/ \E t \in SeqThreads : Return(t)

Spec == Init /\ [][Next]_vars

----------------------------------------------------------------------------
(* Concurrent runs: the threads call the instances without synchronization *)

NextConc ==
    \/ \E i \in Instances : NewRequiredDefault(i)
    \/ \E i \in Instances, m \in CustomMessages : NewRequired(i, m)
    \/ \E i \in Instances, n \in ConcLengths : NewMaxLengthDefault(i, n)
    \/ \E i \in Instances, n \in ConcLengths, m \in CustomMessages :
            NewMaxLength(i, n, m)
    \/ \E i \in Instances, n \in ConcLengths : NewMinLengthDefault(i, n)
    \/ \E i \in Instances, n \in ConcLengths, m \in CustomMessages :
            NewMinLength(i, n, m)
    \/ \E i \in Instances, n \in ConcLengths : NewLengthDefault(i, n)
    \/ \E i \in Instances, n \in ConcLengths, m \in CustomMessages :
            NewLength(i, n, m)
    \/ \E i \in Instances, ty \in ConcTypes : NewParsePrimitiveDefault(i, ty)
    \/ \E i \in Instances, ty \in ConcTypes, m \in CustomMessages :
            NewParsePrimitive(i, ty, m)
    \/ \E t \in Threads, i \in Instances, a \in ConcInputs : Invoke(t, i, a)
    \/ \E t \in Threads : Scrutinee(t)
    \/ \E t \in Threads : MatchArm(t)
    \/ \E t \in Threads : Return(t)

SpecConc == Init /\ [][NextConc]_vars

----------------------------------------------------------------------------
(* Properties *)

Done(t) == pc[t] = "done"

\* the instance thread t is calling
Callee(t) == validators[inst[t]]

DoneOn(t, kind) == Done(t) /\ Callee(t).kind = kind

Accepted(t) == result[t] = Ok

\* C1: max_length(n) returns Accepted if and only if the number of
\* characters (Unicode scalar values, not bytes) of the text is <= n.
C1_MaxLengthCountsCharacters ==
    \A t \in Threads :
        DoneOn(t, "max_length") =>
            (Accepted(t) <=> CharCount(arg[t]) <= Callee(t).length)

\* C2: min_length(n) returns Accepted if and only if the number of
\* characters of the text is >= n.
C2_MinLengthCountsCharacters ==
    \A t \in Threads :
        DoneOn(t, "min_length") =>
            (Accepted(t) <=> CharCount(arg[t]) >= Callee(t).length)

\* C3: length(n) returns Accepted if and only if the number of characters
\* of the text equals n.
C3_LengthCountsCharacters ==
    \A t \in Threads :
        DoneOn(t, "length") =>
            (Accepted(t) <=> CharCount(arg[t]) = Callee(t).length)

\* C4: required accepts every non-empty text, a text of spaces included, and
\* rejects exactly the empty text, with the configured message ("A response
\* is required." when no custom message is given).
C4_RequiredRejectsExactlyEmpty ==
    \A t \in Threads :
        DoneOn(t, "required") =>
            /\ arg[t] # <<>> => Accepted(t)
            /\ arg[t] = <<>> => result[t] = Err(Callee(t).message)
            /\ arm[inst[t]] = "default" =>
                   Callee(t).message = "A response is required."
            /\ arm[inst[t]] = "custom" => Callee(t).message \in CustomMessages

C4_Witness ==
    \E t \in Threads :
        /\ DoneOn(t, "required")
        /\ arg[t] = <<" ", " ">>
        /\ Accepted(t)

NumericChars == Digits \cup {".", "e", "E", "+", "-"}

\* a text that parses, followed by characters no number is written with
HasTrailingCharacters(ty, a) ==
    \E k \in 1..(Len(a) - 1) :
        /\ Parse(ty, Take(a, k))[1] = "Ok"
        /\ \A j \in (k + 1)..Len(a) : a[j] \notin NumericChars

\* Sign? Digit+
IsExponentDigits(s) ==
    LET d == IF s # <<>> /\ IsSign(Head(s)) THEN Tail(s) ELSE s
    IN  d # <<>> /\ DigitPrefixLen(d) = Len(d)

\* a number, then 'e', then something that is no exponent
HasMalformedExponent(a) ==
    \E k \in 1..Len(a) :
        /\ LowerChar(a[k]) = "e"
        /\ LET m == Take(a, k - 1)
               u == IF m # <<>> /\ IsSign(Head(m)) THEN Tail(m) ELSE m
               p == NumberParts(u)
           IN  IsNumber(u) /\ ~p.hasExp
        /\ ~IsExponentDigits(Drop(a, k))

\* an integer literal whose value is outside the range of the integer target
IntegerOutOfRange(ty, a) ==
    /\ ty \in IntTypes
    /\ a # <<>>
    /\ LET neg == IsSigned(ty) /\ Head(a) = "-"
           d == IF Head(a) = "+" \/ neg THEN Tail(a) ELSE a
           v == DigitsValue(d, 0)
       IN  /\ d # <<>>
           /\ DigitPrefixLen(d) = Len(d)
           /\ IF neg THEN 0 - v < IntMin(ty) ELSE v > IntMax(ty)

\* a number whose magnitude is beyond the largest finite f64
FloatOutOfRange(ty, a) ==
    /\ ty = "f64"
    /\ LET u == IF a # <<>> /\ IsSign(Head(a)) THEN Tail(a) ELSE a
       IN  IsNumber(u) /\ NumberOverflowsF64(u)

\* the verdicts the doctest gives for the 64-bit float target
F64Examples(t) ==
    /\ arg[t] = <<"3", "2", ".", "4", "4">> => Accepted(t)
    /\ arg[t] = <<"1", "1", "e", "1", "5">> => Accepted(t)
    /\ arg[t] = <<"3", "2", "f">> => ~Accepted(t)
    /\ arg[t] = <<"1", "1", "^", "2">> => ~Accepted(t)

ParsePrimitiveCommon(t) ==
    /\ Accepted(t) <=> Parse(Callee(t).ty, arg[t])[1] = "Ok"
    /\ ~Accepted(t) => result[t] = Err(Callee(t).message)
    /\ HasTrailingCharacters(Callee(t).ty, arg[t]) => ~Accepted(t)
    /\ HasMalformedExponent(arg[t]) => ~Accepted(t)
    /\ IntegerOutOfRange(Callee(t).ty, arg[t]) => ~Accepted(t)
    /\ Callee(t).ty = "f64" => F64Examples(t)

\* C5 as stated: parse_primitive returns Accepted if and only if the whole
\* text parses into the target type; trailing characters, a malformed
\* exponent or overflow give Rejected, for every numeric target.
C5_OverflowAlwaysRejected ==
    \A t \in Threads :
        DoneOn(t, "parse_primitive") =>
            /\ ParsePrimitiveCommon(t)
            /\ FloatOutOfRange(Callee(t).ty, arg[t]) => ~Accepted(t)

\* C5 amended: parse_primitive returns Accepted if and only if the whole text
\* parses into the target type; trailing characters or a malformed exponent
\* give Rejected, and so does overflow of an integer target, while a number
\* beyond the range of the 64-bit float parses (to infinity) and is Accepted;
\* for the 64-bit float "32.44" and "11e15" are accepted, "32f" and "11^2"
\* rejected.
C5_ParsePrimitive ==
    \A t \in Threads :
        DoneOn(t, "parse_primitive") =>
            /\ ParsePrimitiveCommon(t)
            /\ FloatOutOfRange(Callee(t).ty, arg[t]) => Accepted(t)

C5_Witness ==
    \E t \in Threads :
        /\ DoneOn(t, "parse_primitive")
        /\ Callee(t).ty = "f64"
        /\ arg[t] = <<"9", "e", "9", "9", "9">>
        /\ Accepted(t)

\* the instance built with the same parameters and no custom message
DefaultBuild(v) ==
    CASE v.kind = "required" -> RequiredDefaultClosure
      [] v.kind = "max_length" -> MaxLengthDefaultClosure(v.length)
      [] v.kind = "min_length" -> MinLengthDefaultClosure(v.length)
      [] v.kind = "length" -> LengthDefaultClosure(v.length)
      [] v.kind = "parse_primitive" -> ParsePrimitiveDefaultClosure(v.ty)

\* C6: an instance built with a custom message m decides as the instance
\* built with the same parameters and no custom message; it rejects with
\* exactly m (never the default message) and accepts with no message.
C6_CustomMessageOnlyReplacesReason ==
    \A t \in Threads :
        (Done(t) /\ arm[inst[t]] = "custom") =>
            LET m == Callee(t).message
            IN  /\ m \in CustomMessages
                /\ Accepted(t) <=> Call(DefaultBuild(Callee(t)), arg[t]) = Ok
                /\ ~Accepted(t) => result[t] = Err(m)
                /\ m # DefaultBuild(Callee(t)).message

C6_Witness ==
    \E t \in Threads :
        /\ DoneOn(t, "max_length")
        /\ arm[inst[t]] = "custom"
        /\ arg[t] = <<"T", "e", "r", "r", "i", "b", "l", "e">>
        /\ Callee(t).length = 5
        /\ result[t] = Err("Invalid answer")

\* the decimal numerals of 0..13
Numerals ==
    <<"0", "1", "2", "3", "4", "5", "6", "7", "8", "9", "10", "11", "12", "13">>

Wording(kind) ==
    CASE kind = "max_length" -> "The length of the response should be at most "
      [] kind = "min_length" -> "The length of the response should be at least "
      [] kind = "length" -> "The length of the response should be "

\* C7: a length validator built without a custom message rejects with the
\* fixed wording followed by n in decimal, whatever the rejected text.
C7_DefaultReasonInterpolatesThreshold ==
    \A t \in Threads :
        (Done(t) /\ Callee(t).kind \in LengthKinds /\ arm[inst[t]] = "default"
            /\ ~Accepted(t)) =>
            result[t] = Err(Wording(Callee(t).kind) \o Numerals[Callee(t).length + 1])

C7_Witness ==
    \E t \in Threads :
        /\ DoneOn(t, "max_length")
        /\ arm[inst[t]] = "default"
        /\ Callee(t).length = 12
        /\ result[t] = Err("The length of the response should be at most 12")

\* C8: every call of an instance on a text returns the verdict the earlier
\* calls of that instance on that text returned, whatever was called in
\* between.
C8_SameInputSameVerdict ==
    /\ \A h1, h2 \in history :
           (h1.inst = h2.inst /\ h1.arg = h2.arg) => h1.verdict = h2.verdict
    /\ \A t \in Threads : \A h \in history :
           (Done(t) /\ h.inst = inst[t] /\ h.arg = arg[t]) => h.verdict = result[t]

C8_Witness ==
    \E t \in Threads : \E h1, h2 \in history :
        /\ Done(t)
        /\ h1.inst = inst[t] /\ h1.arg = arg[t] /\ h1.verdict = result[t]
        /\ h2.inst = inst[t] /\ h2.arg # arg[t] /\ h2.verdict # result[t]

\* C9: under every interleaving a call returns the verdict it returns when
\* run alone, and no step changes the captured parameters of an instance or
\* the text of a call in progress.
C9_ConcurrentCallsIndependent ==
    /\ [](\A t \in Threads : Done(t) => result[t] = Call(Callee(t), arg[t]))
    /\ [][/\ \A i \in Instances :
                 Constructed(i) => validators'[i] = validators[i]
           /\ \A t \in Threads :
                 (pc[t] # "idle" /\ pc'[t] # "idle") =>
                     (arg'[t] = arg[t] /\ inst'[t] = inst[t])]_vars

C9_Witness ==
    \E t, u \in Threads :
        /\ t # u
        /\ inst[t] = inst[u]
        /\ arg[t] # arg[u]
        /\ pc[t] = "match"
        /\ Done(u)
        /\ result[u] # Call(Callee(t), arg[t])

\* C10: the length validators share one measure: length(n) accepts a text
\* if and only if max_length(n) and min_length(n) both accept it, and
\* required accepts a text if and only if min_length(1) accepts it.
C10_OneLengthMeasure ==
    \A t \in Threads :
        Done(t) =>
            LET v == Callee(t)
                a == arg[t]
                max == Call(MaxLengthDefaultClosure(v.length), a) = Ok
                min == Call(MinLengthDefaultClosure(v.length), a) = Ok
                len == Call(LengthDefaultClosure(v.length), a) = Ok
            IN  /\ v.kind = "length" => (Accepted(t) <=> (max /\ min))
                /\ v.kind = "max_length" => (len <=> (Accepted(t) /\ min))
                /\ v.kind = "min_length" => (len <=> (max /\ Accepted(t)))
                /\ v.kind = "required" =>
                       (Accepted(t) <=> Call(MinLengthDefaultClosure(1), a) = Ok)
                /\ (v.kind = "min_length" /\ v.length = 1) =>
                       (Accepted(t) <=> Call(RequiredDefaultClosure, a) = Ok)

C10_Witness ==
    \E t \in Threads :
        /\ DoneOn(t, "length")
        /\ Callee(t).length = 2
        /\ arg[t] = <<"é">>
        /\ Accepted(t)

====
